---- MODULE Spec2Model ----
(***************************************************************************)
(* mermaid-lint: block extraction (pkg/parser, ExtractMermaidBlocks),      *)
(* diagram parsing (pkg/parser, Parse) and the rule engine (pkg/linter).   *)
(*                                                                         *)
(* A Go string is a sequence of one-character strings, so that trimming,   *)
(* splitting, joining, case folding and the two regular expressions are    *)
(* computed character by character as the code computes them.              *)
(***************************************************************************)
EXTENDS Integers, Sequences, FiniteSets, TLC

(***************************************************************************)
(* Bounds of the model.                                                    *)
(***************************************************************************)
MaxBodyLines == 2
MaxDocLines == 5
NumGoroutines == 2
MaxArrowLines == 2

(***************************************************************************)
(* strings: the functions of package strings the code calls                *)
(***************************************************************************)
UpperLetters == <<"A","B","C","D","E","F","G","H","I","J","K","L","M",
                  "N","O","P","Q","R","S","T","U","V","W","X","Y","Z">>
LowerLetters == <<"a","b","c","d","e","f","g","h","i","j","k","l","m",
                  "n","o","p","q","r","s","t","u","v","w","x","y","z">>
Digits == {"0","1","2","3","4","5","6","7","8","9"}

Range(s) == {s[k] : k \in DOMAIN s}

\* unicode.IsSpace restricted to ASCII: what TrimSpace and Fields cut at
IsSpace(c) == c \in {" ", "\t", "\n", "\r", "\f"}

ToLowerCh(c) ==
    IF \E k \in DOMAIN UpperLetters : UpperLetters[k] = c
    THEN LowerLetters[CHOOSE k \in DOMAIN UpperLetters : UpperLetters[k] = c]
    ELSE c

ToUpperCh(c) ==
    IF \E k \in DOMAIN LowerLetters : LowerLetters[k] = c
    THEN UpperLetters[CHOOSE k \in DOMAIN LowerLetters : LowerLetters[k] = c]
    ELSE c

ToLower(s) == [k \in DOMAIN s |-> ToLowerCh(s[k])]

ToUpper(s) == [k \in DOMAIN s |-> ToUpperCh(s[k])]

EqualFold(s, t) == ToLower(s) = ToLower(t)

HasPrefix(s, p) == Len(p) <= Len(s) /\ SubSeq(s, 1, Len(p)) = p

TrimPrefix(s, p) == IF HasPrefix(s, p) THEN SubSeq(s, Len(p) + 1, Len(s)) ELSE s

\* s matches the literal lit at (1-based) position p
MatchesAt(s, p, lit) ==
    /\ p >= 1
    /\ p + Len(lit) - 1 <= Len(s)
    /\ SubSeq(s, p, p + Len(lit) - 1) = lit

TrimSpace(s) ==
    LET keep == {k \in DOMAIN s : ~IsSpace(s[k])}
    IN  IF keep = {} THEN <<>>
        ELSE LET lo == CHOOSE k \in keep : \A m \in keep : k <= m
                 hi == CHOOSE k \in keep : \A m \in keep : k >= m
             IN  SubSeq(s, lo, hi)

RECURSIVE FieldsFrom(_, _)
FieldsFrom(s, p) ==
    IF p > Len(s) THEN <<>>
    ELSE IF IsSpace(s[p]) THEN FieldsFrom(s, p + 1)
    ELSE LET stops == {k \in p..Len(s) : IsSpace(s[k])}
             e == IF stops = {} THEN Len(s) + 1
                  ELSE CHOOSE k \in stops : \A m \in stops : k <= m
         IN  <<SubSeq(s, p, e - 1)>> \o FieldsFrom(s, e)

Fields(s) == FieldsFrom(s, 1)

\* strings.Split(s, "\n"): always at least one element
RECURSIVE SplitFrom(_, _)
SplitFrom(s, p) ==
    LET nls == {k \in p..Len(s) : s[k] = "\n"}
    IN  IF nls = {} THEN <<SubSeq(s, p, Len(s))>>
        ELSE LET e == CHOOSE k \in nls : \A m \in nls : k <= m
             IN  <<SubSeq(s, p, e - 1)>> \o SplitFrom(s, e + 1)

Split(s) == SplitFrom(s, 1)

\* strings.Join(ls, "\n")
RECURSIVE Join(_)
Join(ls) ==
    IF Len(ls) = 0 THEN <<>>
    ELSE IF Len(ls) = 1 THEN ls[1]
    ELSE ls[1] \o <<"\n">> \o Join(Tail(ls))

(***************************************************************************)
(* pkg/parser: fenced-block extraction                                     *)
(***************************************************************************)
\* the character U+0060, which a TLA+ string cannot hold
BT == "BACKTICK"
Backticks == <<BT, BT, BT>>
Tildes == <<"~","~","~">>
Mermaid == <<"m","e","r","m","a","i","d">>

isMermaidFenceOpen(line) ==
    IF HasPrefix(line, Backticks)
    THEN EqualFold(TrimSpace(TrimPrefix(line, Backticks)), Mermaid)
    ELSE IF HasPrefix(line, Tildes)
    THEN EqualFold(TrimSpace(TrimPrefix(line, Tildes)), Mermaid)
    ELSE FALSE

isClosingFence(line) == line = Backticks \/ line = Tildes

\* bufio.MaxScanTokenSize: the scanner made by bufio.NewScanner gives up with
\* bufio.ErrTooLong on a line that does not fit its buffer of this many bytes
MaxScanTokenSize == 65536

\* one element of a line that stands for a run of 65536 letters x
XRUN == "x*65536"

RECURSIVE ByteLen(_)
ByteLen(line) ==
    IF line = <<>> THEN 0
    ELSE (IF Head(line) = XRUN THEN 65536 ELSE 1) + ByteLen(Tail(line))

\* scanner.Scan() can deliver the line
FitsBuffer(line) == ByteLen(line) < MaxScanTokenSize

NoBlock == [open |-> FALSE, StartLine |-> 0]

\* an opening fence inside a block starts the block anew
ScanStepNesting(st, line) ==
    LET n == st.lineNum + 1
        trimmed == TrimSpace(line)
    IN  IF ~st.current.open \/ isMermaidFenceOpen(trimmed)
        THEN IF isMermaidFenceOpen(trimmed)
             THEN [st EXCEPT !.lineNum = n,
                             !.current = [open |-> TRUE, StartLine |-> n],
                             !.lines = <<>>]
             ELSE [st EXCEPT !.lineNum = n]
        ELSE IF isClosingFence(trimmed)
             THEN [st EXCEPT !.lineNum = n,
                             !.blocks = Append(st.blocks,
                                 [Source |-> Join(st.lines),
                                  StartLine |-> st.current.StartLine,
                                  EndLine |-> n]),
                             !.current = NoBlock,
                             !.lines = <<>>]
             ELSE [st EXCEPT !.lineNum = n, !.lines = Append(st.lines, line)]

\* One iteration of the scan loop of ExtractMermaidBlocks on the line the
\* scanner delivers; st = [lineNum, current, lines, blocks].
ScanStep(st, line) ==
    LET n == st.lineNum + 1
        trimmed == TrimSpace(line)
    IN  IF ~st.current.open
        THEN IF isMermaidFenceOpen(trimmed)
             THEN [st EXCEPT !.lineNum = n,
                             !.current = [open |-> TRUE, StartLine |-> n],
                             !.lines = <<>>]
             ELSE [st EXCEPT !.lineNum = n]
        ELSE IF isClosingFence(trimmed)
             THEN [st EXCEPT !.lineNum = n,
                             !.blocks = Append(st.blocks,
                                 [Source |-> Join(st.lines),
                                  StartLine |-> st.current.StartLine,
                                  EndLine |-> n]),
                             !.current = NoBlock,
                             !.lines = <<>>]
             ELSE [st EXCEPT !.lineNum = n, !.lines = Append(st.lines, line)]

\* a block still open when the input ends is emitted with what was buffered
BlocksAtEndFlushed(st) ==
    IF st.current.open
    THEN Append(st.blocks, [Source |-> Join(st.lines),
                            StartLine |-> st.current.StartLine,
                            EndLine |-> st.lineNum])
    ELSE st.blocks

\* what ExtractMermaidBlocks returns when the input ends without an error:
\* blocks, whatever current and lines hold
BlocksAtEnd(st) == st.blocks

(***************************************************************************)
(* pkg/parser: diagram types and type detection                            *)
(***************************************************************************)
DiagramFlowchart == "flowchart"
DiagramGraph == "graph"
DiagramUnknown == "unknown"
\* the zero value of DiagramType
DiagramNone == ""

KnownDiagramTypes ==
    << [key |-> <<"f","l","o","w","c","h","a","r","t">>,
        type |-> "flowchart"],
       [key |-> <<"g","r","a","p","h">>,
        type |-> "graph"],
       [key |-> <<"s","e","q","u","e","n","c","e","d","i","a","g","r","a","m">>,
        type |-> "sequenceDiagram"],
       [key |-> <<"c","l","a","s","s","d","i","a","g","r","a","m">>,
        type |-> "classDiagram"],
       [key |-> <<"s","t","a","t","e","d","i","a","g","r","a","m">>,
        type |-> "stateDiagram"],
       [key |-> <<"s","t","a","t","e","d","i","a","g","r","a","m","-","v","2">>,
        type |-> "stateDiagram-v2"],
       [key |-> <<"e","r","d","i","a","g","r","a","m">>,
        type |-> "erDiagram"],
       [key |-> <<"g","a","n","t","t">>,
        type |-> "gantt"],
       [key |-> <<"p","i","e">>,
        type |-> "pie"],
       [key |-> <<"g","i","t","g","r","a","p","h">>,
        type |-> "gitGraph"],
       [key |-> <<"m","i","n","d","m","a","p">>,
        type |-> "mindmap"],
       [key |-> <<"t","i","m","e","l","i","n","e">>,
        type |-> "timeline"],
       [key |-> <<"q","u","a","d","r","a","n","t","c","h","a","r","t">>,
        type |-> "quadrantChart"],
       [key |-> <<"r","e","q","u","i","r","e","m","e","n","t","d","i","a","g","r","a","m">>,
        type |-> "requirementDiagram"],
       [key |-> <<"c","4","c","o","n","t","e","x","t">>,
        type |-> "C4Context"],
       [key |-> <<"c","4","c","o","n","t","a","i","n","e","r">>,
        type |-> "C4Container"],
       [key |-> <<"c","4","c","o","m","p","o","n","e","n","t">>,
        type |-> "C4Component"],
       [key |-> <<"c","4","d","y","n","a","m","i","c">>,
        type |-> "C4Dynamic"],
       [key |-> <<"c","4","d","e","p","l","o","y","m","e","n","t">>,
        type |-> "C4Deployment"],
       [key |-> <<"s","a","n","k","e","y","-","b","e","t","a">>,
        type |-> "sankey-beta"],
       [key |-> <<"b","l","o","c","k","-","b","e","t","a">>,
        type |-> "block-beta"],
       [key |-> <<"x","y","c","h","a","r","t","-","b","e","t","a">>,
        type |-> "xychart-beta"] >>

IsKnownKey(k) == \E n \in DOMAIN KnownDiagramTypes : KnownDiagramTypes[n].key = k

LookupType(k) ==
    KnownDiagramTypes[CHOOSE n \in DOMAIN KnownDiagramTypes :
                          KnownDiagramTypes[n].key = k].type

ValidFlowchartDirections ==
    { <<"T","B">>, <<"T","D">>, <<"B","T">>, <<"L","R">>, <<"R","L">> }

CommentMarker == <<"%","%">>

IsFlow(type) == type = DiagramFlowchart \/ type = DiagramGraph

\* &Diagram{Lines: lines, StartLine: startLine}
NewDiagram(lines, startLine) ==
    [Type |-> DiagramNone, TypeRaw |-> <<>>, Direction |-> <<>>,
     Nodes |-> <<>>, Edges |-> <<>>, Lines |-> lines, StartLine |-> startLine]

\* the keyword looked up as written, not lower-cased
TypeOfLineAsWritten(d, trimmed) ==
    LET parts == Fields(trimmed)
        keyword == parts[1]
        dt == IF IsKnownKey(keyword) THEN LookupType(keyword)
              ELSE DiagramUnknown
    IN  [d EXCEPT !.TypeRaw = keyword,
                  !.Type = dt,
                  !.Direction = IF IsFlow(dt) /\ Len(parts) > 1
                                THEN parts[2] ELSE d.Direction]

\* the assignments parseType makes on the first significant line
TypeOfLine(d, trimmed) ==
    LET parts == Fields(trimmed)
        keyword == parts[1]
        normalized == ToLower(keyword)
        dt == IF IsKnownKey(normalized) THEN LookupType(normalized)
              ELSE DiagramUnknown
    IN  [d EXCEPT !.TypeRaw = keyword,
                  !.Type = dt,
                  !.Direction = IF IsFlow(dt) /\ Len(parts) > 1
                                THEN parts[2] ELSE d.Direction]

RECURSIVE parseTypeFrom(_, _, _)
parseTypeFrom(d, lines, k) ==
    IF k > Len(lines) THEN d
    ELSE LET trimmed == TrimSpace(lines[k])
         IN  IF trimmed = <<>> \/ HasPrefix(trimmed, CommentMarker)
             THEN parseTypeFrom(d, lines, k + 1)
             ELSE IF Len(Fields(trimmed)) = 0
             THEN parseTypeFrom(d, lines, k + 1)
             ELSE TypeOfLine(d, trimmed)

parseType(d, lines) == parseTypeFrom(d, lines, 1)

isDeclarationLine(line) ==
    LET lower == ToLower(TrimSpace(line))
    IN  \E n \in DOMAIN KnownDiagramTypes :
            HasPrefix(lower, KnownDiagramTypes[n].key)

(***************************************************************************)
(* pkg/parser: the two regular expressions, matched as Go's regexp does    *)
(* (leftmost match, alternatives in order, greedy repetition)              *)
(***************************************************************************)
Letters == Range(UpperLetters) \cup Range(LowerLetters)

\* [A-Za-z_]
IsIdentStart(c) == c \in Letters \cup {"_"}

\* [A-Za-z0-9_]
IsIdentChar(c) == c \in Letters \cup Digits \cup {"_"}

\* \s
IsReSpace(c) == c \in {" ", "\t", "\n", "\r", "\f"}

Min(S) == CHOOSE k \in S : \A m \in S : k <= m

Max(S) == CHOOSE k \in S : \A m \in S : k >= m

\* the position after the longest run of identifier characters from p
IdentEnd(s, p) ==
    LET stops == {k \in p..Len(s) : ~IsIdentChar(s[k])}
    IN  IF stops = {} THEN Len(s) + 1 ELSE Min(stops)

\* the position after \s* from p
SkipSpace(s, p) ==
    LET stops == {k \in p..Len(s) : ~IsReSpace(s[k])}
    IN  IF stops = {} THEN Len(s) + 1 ELSE Min(stops)

\* the regexp items . and [>x]
ANY == "ANY"
GTX == "[>x]"

\* (-->|---|-.->|-.-|==>|===|--[>x]|~~>|~~)
ArrowAlts ==
    << <<"-", "-", ">">>,
       <<"-", "-", "-">>,
       <<"-", ANY, "-", ">">>,
       <<"-", ANY, "-">>,
       <<"=", "=", ">">>,
       <<"=", "=", "=">>,
       <<"-", "-", GTX>>,
       <<"~", "~", ">">>,
       <<"~", "~">> >>

ItemMatches(item, c) ==
    IF item = ANY THEN c # "\n"
    ELSE IF item = GTX THEN c \in {">", "x"}
    ELSE c = item

ArrowAt(s, p, alt) ==
    /\ p + Len(alt) - 1 <= Len(s)
    /\ \A k \in DOMAIN alt : ItemMatches(alt[k], s[p + k - 1])

NoEdgeTail == [ok |-> FALSE, label |-> <<>>, to |-> <<>>, end |-> 0]

\* \s*(?:\|([^|]*)\|\s*)?([A-Za-z_][A-Za-z0-9_]*) from position b
EdgeTail(s, b) ==
    LET c == SkipSpace(s, b)
    IN  IF c > Len(s) THEN NoEdgeTail
        ELSE IF s[c] = "|"
        THEN LET bars == {k \in (c + 1)..Len(s) : s[k] = "|"}
             IN  IF bars = {} THEN NoEdgeTail
                 ELSE LET e == Min(bars)
                          f == SkipSpace(s, e + 1)
                      IN  IF f <= Len(s) /\ IsIdentStart(s[f])
                          THEN [ok |-> TRUE,
                                label |-> SubSeq(s, c + 1, e - 1),
                                to |-> SubSeq(s, f, IdentEnd(s, f) - 1),
                                end |-> IdentEnd(s, f)]
                          ELSE NoEdgeTail
        ELSE IF IsIdentStart(s[c])
        THEN [ok |-> TRUE, label |-> <<>>,
              to |-> SubSeq(s, c, IdentEnd(s, c) - 1),
              end |-> IdentEnd(s, c)]
        ELSE NoEdgeTail

NoEdgeMatch ==
    [ok |-> FALSE, from |-> <<>>, style |-> <<>>, label |-> <<>>,
     to |-> <<>>, end |-> 0]

\* the pattern with a bracket group [...] allowed after the first identifier
EdgeMatchAtAfterBracket(s, p) ==
    IF ~(p <= Len(s) /\ IsIdentStart(s[p])) THEN NoEdgeMatch
    ELSE LET q == IdentEnd(s, p)
             closes == {k \in q..Len(s) : s[k] = "]"}
             r == IF q <= Len(s) /\ s[q] = "[" /\ closes # {}
                  THEN Min(closes) + 1 ELSE q
             a == SkipSpace(s, r)
             good == {k \in DOMAIN ArrowAlts :
                         /\ ArrowAt(s, a, ArrowAlts[k])
                         /\ EdgeTail(s, a + Len(ArrowAlts[k])).ok}
         IN  IF good = {} THEN NoEdgeMatch
             ELSE LET k == Min(good)
                      t == EdgeTail(s, a + Len(ArrowAlts[k]))
                  IN  [ok |-> TRUE,
                       from |-> SubSeq(s, p, q - 1),
                       style |-> SubSeq(s, a, a + Len(ArrowAlts[k]) - 1),
                       label |-> t.label,
                       to |-> t.to,
                       end |-> t.end]

\* edgePattern anchored at position p
EdgeMatchAt(s, p) ==
    IF ~(p <= Len(s) /\ IsIdentStart(s[p])) THEN NoEdgeMatch
    ELSE LET q == IdentEnd(s, p)
             a == SkipSpace(s, q)
             good == {k \in DOMAIN ArrowAlts :
                         /\ ArrowAt(s, a, ArrowAlts[k])
                         /\ EdgeTail(s, a + Len(ArrowAlts[k])).ok}
         IN  IF good = {} THEN NoEdgeMatch
             ELSE LET k == Min(good)
                      t == EdgeTail(s, a + Len(ArrowAlts[k]))
                  IN  [ok |-> TRUE,
                       from |-> SubSeq(s, p, q - 1),
                       style |-> SubSeq(s, a, a + Len(ArrowAlts[k]) - 1),
                       label |-> t.label,
                       to |-> t.to,
                       end |-> t.end]

\* edgePattern.FindAllStringSubmatch(s, -1), searching from position p
RECURSIVE EdgeMatchesFrom(_, _)
EdgeMatchesFrom(s, p) ==
    IF p > Len(s) THEN <<>>
    ELSE LET m == EdgeMatchAt(s, p)
         IN  IF m.ok THEN <<m>> \o EdgeMatchesFrom(s, m.end)
             ELSE EdgeMatchesFrom(s, p + 1)

EdgeMatches(s) == EdgeMatchesFrom(s, 1)

\* the ten bracket alternatives of nodeDefPattern, capture groups 2..11
BracketAlts ==
    << [open |-> <<"[">>, stop |-> "]", close |-> <<"]">>, shape |-> "rect"],
       [open |-> <<"(">>, stop |-> ")", close |-> <<")">>, shape |-> "round"],
       [open |-> <<"{">>, stop |-> "}", close |-> <<"}">>, shape |-> "rhombus"],
       [open |-> <<"[", "[">>, stop |-> "]", close |-> <<"]", "]">>,
        shape |-> "subroutine"],
       [open |-> <<"[", "(">>, stop |-> ")", close |-> <<")", "]">>,
        shape |-> "cylinder"],
       [open |-> <<"(", "[">>, stop |-> "]", close |-> <<"]", ")">>,
        shape |-> "stadium"],
       [open |-> <<"(", "(">>, stop |-> ")", close |-> <<")", ")">>,
        shape |-> "circle"],
       [open |-> <<">">>, stop |-> "]", close |-> <<"]">>,
        shape |-> "asymmetric"],
       [open |-> <<"[", "/">>, stop |-> "]", close |-> <<"/", "]">>,
        shape |-> "parallelogram"],
       [open |-> <<"[", "\\">>, stop |-> "]", close |-> <<"\\", "]">>,
        shape |-> "parallelogram-alt"] >>

\* the lengths n of a capture [^stop]* at r after which close matches
CaptureLens(s, r, alt) ==
    LET stops == {k \in r..Len(s) : s[k] = alt.stop}
        run == IF stops = {} THEN Len(s) + 1 - r ELSE Min(stops) - r
    IN  {n \in 0..run : MatchesAt(s, r + n, alt.close)}

BracketAt(s, q, alt) ==
    /\ MatchesAt(s, q, alt.open)
    /\ CaptureLens(s, q + Len(alt.open), alt) # {}

NoNodeMatch ==
    [ok |-> FALSE, id |-> <<>>, label |-> <<>>, shape |-> "default", end |-> 0]

\* the identifier at a and the optional bracket group after it; the label
\* and shape are what parseFlowchart reads off the capture groups
NodeFrom(s, a) ==
    LET q == IdentEnd(s, a)
        good == {j \in DOMAIN BracketAlts : BracketAt(s, q, BracketAlts[j])}
    IN  IF good = {}
        THEN [ok |-> TRUE, id |-> SubSeq(s, a, q - 1), label |-> <<>>,
              shape |-> "default", end |-> q]
        ELSE LET alt == BracketAlts[Min(good)]
                 r == q + Len(alt.open)
                 n == Max(CaptureLens(s, r, alt))
                 cap == SubSeq(s, r, r + n - 1)
             IN  [ok |-> TRUE, id |-> SubSeq(s, a, q - 1), label |-> cap,
                  shape |-> IF cap = <<>> THEN "default" ELSE alt.shape,
                  end |-> r + n + Len(alt.close)]

\* nodeDefPattern anchored at position p: (?:^|[\s;]) then the identifier
NodeMatchAt(s, p) ==
    IF p > Len(s) THEN NoNodeMatch
    ELSE IF p = 1 /\ IsIdentStart(s[1]) THEN NodeFrom(s, 1)
    ELSE IF /\ (IsReSpace(s[p]) \/ s[p] = ";")
            /\ p + 1 <= Len(s)
            /\ IsIdentStart(s[p + 1])
    THEN NodeFrom(s, p + 1)
    ELSE NoNodeMatch

\* nodeDefPattern.FindAllStringSubmatch(s, -1), searching from position p
RECURSIVE NodeMatchesFrom(_, _)
NodeMatchesFrom(s, p) ==
    IF p > Len(s) THEN <<>>
    ELSE LET m == NodeMatchAt(s, p)
         IN  IF m.ok THEN <<m>> \o NodeMatchesFrom(s, m.end)
             ELSE NodeMatchesFrom(s, p + 1)

NodeMatches(s) == NodeMatchesFrom(s, 1)

(***************************************************************************)
(* pkg/parser: structural parse of a flowchart/graph                       *)
(*   ps = [d |-> the Diagram, seen |-> the keys of seenNodes]              *)
(***************************************************************************)
IsDirective(lower) ==
    \/ HasPrefix(lower, <<"s","u","b","g","r","a","p","h">>)
    \/ lower = <<"e","n","d">>
    \/ HasPrefix(lower, <<"s","t","y","l","e"," ">>)
    \/ HasPrefix(lower, <<"c","l","a","s","s","D","e","f"," ">>)
    \/ HasPrefix(lower, <<"c","l","a","s","s","d","e","f"," ">>)
    \/ HasPrefix(lower, <<"c","l","i","c","k"," ">>)
    \/ HasPrefix(lower, <<"l","i","n","k","s","t","y","l","e"," ">>)

\* i is the 0-based index of the line, as in the code
SkipsLine(i, trimmed) ==
    \/ trimmed = <<>>
    \/ HasPrefix(trimmed, CommentMarker)
    \/ i = 0
    \/ isDeclarationLine(trimmed)
    \/ IsDirective(ToLower(trimmed))

\* a Node is appended whether or not the id was seen
RegisterRefAlways(ps, id, lineNum) ==
    [d |-> [ps.d EXCEPT !.Nodes = Append(@,
                [ID |-> id, Label |-> <<>>, Line |-> lineNum, Shape |-> ""])],
     seen |-> ps.seen \cup {id}]

\* the edge is appended, its endpoints are not registered
AddEdgeUnregistered(ps, m, lineNum) ==
    [ps EXCEPT !.d.Edges = Append(@,
        [From |-> m.from, To |-> m.to, Label |-> m.label,
         Line |-> lineNum, Style |-> m.style])]

\* if !seenNodes[id] { seenNodes[id] = true; append Node{ID: id, Line: lineNum} }
RegisterRef(ps, id, lineNum) ==
    IF id \in ps.seen THEN ps
    ELSE [d |-> [ps.d EXCEPT !.Nodes = Append(@,
                     [ID |-> id, Label |-> <<>>, Line |-> lineNum, Shape |-> ""])],
          seen |-> ps.seen \cup {id}]

\* the body of the loop over edgeMatches
AddEdge(ps, m, lineNum) ==
    LET withEdge == [ps EXCEPT !.d.Edges = Append(@,
                        [From |-> m.from, To |-> m.to, Label |-> m.label,
                         Line |-> lineNum, Style |-> m.style])]
    IN  RegisterRef(RegisterRef(withEdge, m.from, lineNum), m.to, lineNum)

\* the first node with this id takes label and shape, labelled or not
BackfillOverwriting(nodes, id, label, shape) ==
    LET hits == {k \in DOMAIN nodes : nodes[k].ID = id}
    IN  IF hits = {} THEN nodes
        ELSE [nodes EXCEPT ![Min(hits)].Label = label, ![Min(hits)].Shape = shape]

\* the first node with this id whose label is still empty takes label and shape
Backfill(nodes, id, label, shape) ==
    LET hits == {k \in DOMAIN nodes : nodes[k].ID = id /\ nodes[k].Label = <<>>}
    IN  IF hits = {} THEN nodes
        ELSE [nodes EXCEPT ![Min(hits)].Label = label, ![Min(hits)].Shape = shape]

\* the body of the loop over nodeMatches
AddNodeDef(ps, m, lineNum) ==
    IF m.id = <<>> THEN ps
    ELSE IF m.id \notin ps.seen
    THEN [d |-> [ps.d EXCEPT !.Nodes = Append(@,
                     [ID |-> m.id, Label |-> m.label, Line |-> lineNum,
                      Shape |-> m.shape])],
          seen |-> ps.seen \cup {m.id}]
    ELSE IF m.label # <<>>
    THEN [ps EXCEPT !.d.Nodes = Backfill(@, m.id, m.label, m.shape)]
    ELSE ps

RECURSIVE FoldEdges(_, _, _)
FoldEdges(ps, ms, lineNum) ==
    IF ms = <<>> THEN ps
    ELSE FoldEdges(AddEdge(ps, Head(ms), lineNum), Tail(ms), lineNum)

RECURSIVE FoldNodeDefs(_, _, _)
FoldNodeDefs(ps, ms, lineNum) ==
    IF ms = <<>> THEN ps
    ELSE FoldNodeDefs(AddNodeDef(ps, Head(ms), lineNum), Tail(ms), lineNum)

\* one iteration of the loop of parseFlowchart, on lines[i] (0-based i)
FlowchartLine(ps, i, line) ==
    LET trimmed == TrimSpace(line)
        lineNum == ps.d.StartLine + i
    IN  IF SkipsLine(i, trimmed) THEN ps
        ELSE FoldNodeDefs(FoldEdges(ps, EdgeMatches(trimmed), lineNum),
                          NodeMatches(trimmed), lineNum)

RECURSIVE parseFlowchartFrom(_, _, _)
parseFlowchartFrom(ps, lines, i) ==
    IF i >= Len(lines) THEN ps
    ELSE parseFlowchartFrom(FlowchartLine(ps, i, lines[i + 1]), lines, i + 1)

\* Parse(source, startLine), start to finish
Parse(source, startLine) ==
    LET lines == Split(source)
        d == parseType(NewDiagram(lines, startLine), lines)
    IN  IF IsFlow(d.Type)
        THEN parseFlowchartFrom([d |-> d, seen |-> {}], lines, 0).d
        ELSE d

(***************************************************************************)
(* pkg/config                                                              *)
(*   a Config is its Rules map: a function from the rule names that have   *)
(*   an entry to [Enabled, Severity]                                       *)
(***************************************************************************)
SeverityError == "error"
SeverityWarning == "warning"
SeverityInfo == "info"

DefaultConfig ==
    [n \in {"no-unknown-diagram-type", "no-empty-diagram", "valid-direction",
            "no-duplicate-node-ids", "node-has-label", "no-orphan-nodes"} |->
        [Enabled |-> TRUE,
         Severity |-> CASE n = "no-unknown-diagram-type" -> SeverityError
                        [] n = "no-empty-diagram" -> SeverityWarning
                        [] n = "valid-direction" -> SeverityError
                        [] n = "no-duplicate-node-ids" -> SeverityWarning
                        [] n = "node-has-label" -> SeverityInfo
                        [] n = "no-orphan-nodes" -> SeverityWarning]]

\* a Config whose Rules map is nil
NilConfig == <<>>

\* what json.Unmarshal stores for a rule of the file: a RuleConfig decoded
\* from its zero value, so a field the file leaves out is false or ""
DecodeRule(o) ==
    [Enabled |-> IF o.hasEnabled THEN o.enabled ELSE FALSE,
     Severity |-> IF o.hasSeverity THEN o.severity ELSE ""]

\* the Rules map is made anew from the rules of the file
UnmarshalReplacing(cfg, file) ==
    IF file.kind # "rules" THEN cfg
    ELSE [n \in DOMAIN file.rules |-> DecodeRule(file.rules[n])]

\* json.Unmarshal(data, cfg) on a file that is a JSON object: without a
\* "rules" member cfg is left as it is, null sets the map to nil, an object
\* stores its members into the existing map
Unmarshal(cfg, file) ==
    CASE file.kind = "no rules" -> cfg
      [] file.kind = "null rules" -> NilConfig
      [] file.kind = "rules" ->
            [n \in DOMAIN cfg \cup DOMAIN file.rules |->
                IF n \in DOMAIN file.rules THEN DecodeRule(file.rules[n])
                ELSE cfg[n]]

\* LoadConfig(path), by what is at the path: no file, a file that cannot be
\* read, a file that is not the JSON of a Config, or such JSON
LoadConfig(file) ==
    CASE file.kind = "missing" -> [cfg |-> DefaultConfig, err |-> FALSE]
      [] file.kind \in {"unreadable", "invalid"} -> [cfg |-> NilConfig, err |-> TRUE]
      [] OTHER -> [cfg |-> Unmarshal(DefaultConfig, file), err |-> FALSE]

\* a rule without entry counts as enabled
IsRuleEnabledByDefault(c, name) ==
    IF name \notin DOMAIN c THEN TRUE ELSE c[name].Enabled

IsRuleEnabled(c, name) ==
    IF name \notin DOMAIN c THEN FALSE ELSE c[name].Enabled

RuleSeverity(c, name) ==
    IF name \notin DOMAIN c THEN SeverityWarning ELSE c[name].Severity

(***************************************************************************)
(* pkg/linter: the six rules                                               *)
(*   a message is the format string of the Sprintf call and its arguments  *)
(***************************************************************************)
Msg(fmt, id, line) == [fmt |-> fmt, id |-> id, line |-> line]

\* a Finding as a rule's Check returns it: File and Severity not set
NewFinding(rule, message, line) ==
    [Rule |-> rule, Severity |-> "", Message |-> message, File |-> "",
     Line |-> line]

NoUnknownDiagramType(d) ==
    IF d.Type = DiagramUnknown /\ d.TypeRaw # <<>>
    THEN << NewFinding("no-unknown-diagram-type",
                Msg("unknown diagram type %q", d.TypeRaw, 0), d.StartLine) >>
    ELSE IF d.TypeRaw = <<>>
    THEN << NewFinding("no-unknown-diagram-type",
                Msg("no diagram type declaration found", <<>>, 0), d.StartLine) >>
    ELSE <<>>

\* without the guard on the diagram type
NoEmptyDiagramAnyType(d) ==
    IF Len(d.Nodes) = 0 /\ Len(d.Edges) = 0
    THEN << NewFinding("no-empty-diagram",
                Msg("diagram has no nodes or edges", <<>>, 0), d.StartLine) >>
    ELSE <<>>

NoEmptyDiagram(d) ==
    IF ~IsFlow(d.Type) THEN <<>>
    ELSE IF Len(d.Nodes) = 0 /\ Len(d.Edges) = 0
    THEN << NewFinding("no-empty-diagram",
                Msg("diagram has no nodes or edges", <<>>, 0), d.StartLine) >>
    ELSE <<>>

\* the direction compared as written, not upper-cased
ValidDirectionAsWritten(d) ==
    IF ~IsFlow(d.Type) THEN <<>>
    ELSE IF d.Direction = <<>> THEN <<>>
    ELSE IF d.Direction \notin ValidFlowchartDirections
    THEN << NewFinding("valid-direction",
                Msg("invalid flowchart direction %q; must be one of TB, TD, BT, LR, RL",
                    d.Direction, 0), d.StartLine) >>
    ELSE <<>>

ValidDirection(d) ==
    IF ~IsFlow(d.Type) THEN <<>>
    ELSE IF d.Direction = <<>> THEN <<>>
    ELSE IF ToUpper(d.Direction) \notin ValidFlowchartDirections
    THEN << NewFinding("valid-direction",
                Msg("invalid flowchart direction %q; must be one of TB, TD, BT, LR, RL",
                    d.Direction, 0), d.StartLine) >>
    ELSE <<>>

\* the loop of NoDuplicateNodeIDs.Check from node k on; seen maps the ids
\* met so far to the line of their first node
RECURSIVE DuplicatesFrom(_, _, _)
DuplicatesFrom(nodes, k, seen) ==
    IF k > Len(nodes) THEN <<>>
    ELSE LET node == nodes[k]
         IN  IF node.ID \in DOMAIN seen
             THEN << NewFinding("no-duplicate-node-ids",
                         Msg("duplicate node ID %q (first defined at line %d)",
                             node.ID, seen[node.ID]), node.Line) >>
                  \o DuplicatesFrom(nodes, k + 1, seen)
             ELSE DuplicatesFrom(nodes, k + 1,
                      [x \in DOMAIN seen \cup {node.ID} |->
                          IF x = node.ID THEN node.Line ELSE seen[x]])

NoDuplicateNodeIDs(d) ==
    IF ~IsFlow(d.Type) THEN <<>>
    ELSE DuplicatesFrom(d.Nodes, 1, <<>>)

RECURSIVE UnlabelledFrom(_, _)
UnlabelledFrom(nodes, k) ==
    IF k > Len(nodes) THEN <<>>
    ELSE (IF nodes[k].Label = <<>>
          THEN << NewFinding("node-has-label",
                      Msg("node %q has no label", nodes[k].ID, 0), nodes[k].Line) >>
          ELSE <<>>)
         \o UnlabelledFrom(nodes, k + 1)

\* returns at the first unlabelled node
NodeHasLabelFirstOnly(d) ==
    IF ~IsFlow(d.Type) THEN <<>>
    ELSE LET all == UnlabelledFrom(d.Nodes, 1)
         IN  IF all = <<>> THEN <<>> ELSE <<all[1]>>

NodeHasLabel(d) ==
    IF ~IsFlow(d.Type) THEN <<>>
    ELSE UnlabelledFrom(d.Nodes, 1)

RECURSIVE OrphansFrom(_, _, _)
OrphansFrom(nodes, k, connected) ==
    IF k > Len(nodes) THEN <<>>
    ELSE (IF nodes[k].ID \notin connected
          THEN << NewFinding("no-orphan-nodes",
                      Msg("node %q is not connected to any edge", nodes[k].ID, 0),
                      nodes[k].Line) >>
          ELSE <<>>)
         \o OrphansFrom(nodes, k + 1, connected)

\* without the early return on an empty edge list
NoOrphanNodesAlways(d) ==
    IF ~IsFlow(d.Type) THEN <<>>
    ELSE OrphansFrom(d.Nodes, 1,
             {d.Edges[k].From : k \in DOMAIN d.Edges}
                 \cup {d.Edges[k].To : k \in DOMAIN d.Edges})

NoOrphanNodes(d) ==
    IF ~IsFlow(d.Type) THEN <<>>
    ELSE IF Len(d.Edges) = 0 THEN <<>>
    ELSE OrphansFrom(d.Nodes, 1,
             {d.Edges[k].From : k \in DOMAIN d.Edges}
                 \cup {d.Edges[k].To : k \in DOMAIN d.Edges})

\* the registry with node-has-label ahead of valid-direction
AllRulesReordered ==
    << "no-unknown-diagram-type", "no-empty-diagram", "node-has-label",
       "no-duplicate-node-ids", "valid-direction", "no-orphan-nodes" >>

\* the registry, by rule name, in the order of AllRules()
AllRules ==
    << "no-unknown-diagram-type", "no-empty-diagram", "valid-direction",
       "no-duplicate-node-ids", "node-has-label", "no-orphan-nodes" >>

\* rule.Check(d) for the rule of that name
Check(rule, d) ==
    CASE rule = "no-unknown-diagram-type" -> NoUnknownDiagramType(d)
      [] rule = "no-empty-diagram" -> NoEmptyDiagram(d)
      [] rule = "valid-direction" -> ValidDirection(d)
      [] rule = "no-duplicate-node-ids" -> NoDuplicateNodeIDs(d)
      [] rule = "node-has-label" -> NodeHasLabel(d)
      [] rule = "no-orphan-nodes" -> NoOrphanNodes(d)

(***************************************************************************)
(* pkg/linter: the engine                                                  *)
(***************************************************************************)
\* the severity is set, the file is not
StampSeverityOnly(fs, file, severity) ==
    [k \in DOMAIN fs |-> [fs[k] EXCEPT !.Severity = severity]]

\* f.File = filename; f.Severity = severity, for every finding of one rule
Stamp(fs, file, severity) ==
    [k \in DOMAIN fs |-> [fs[k] EXCEPT !.File = file, !.Severity = severity]]

\* one iteration of the loop of lintDiagram: what the rule adds to findings
RuleFindings(c, rule, dg, file) ==
    IF ~IsRuleEnabled(c, rule) THEN <<>>
    ELSE Stamp(Check(rule, dg), file, RuleSeverity(c, rule))

\* New(cfg)
New(cfg) == [Config |-> cfg, Rules |-> AllRules]

\* the rule is taken out of the shared Config once it has run
LintStepDroppingRule(l, g) ==
    LET rule == l.Rules[g.ruleIdx]
    IN  [l |-> [l EXCEPT !.Config = [n \in DOMAIN @ \ {rule} |-> @[n]]],
         g |-> [g EXCEPT !.findings = @ \o RuleFindings(l.Config, rule, g.d, g.filename),
                         !.ruleIdx = @ + 1]]

\* one iteration of the loop of lintDiagram, run by a goroutine with locals
\* g on the Linter l: what it leaves of the Linter, of the Diagram and of
\* its locals
LintStep(l, g) ==
    [l |-> l,
     g |-> [g EXCEPT !.findings = @ \o RuleFindings(l.Config, l.Rules[g.ruleIdx],
                                                      g.d, g.filename),
                     !.ruleIdx = @ + 1]]

RECURSIVE lintDiagramFrom(_, _, _, _, _)
lintDiagramFrom(c, rules, r, dg, file) ==
    IF r > Len(rules) THEN <<>>
    ELSE RuleFindings(c, rules[r], dg, file)
         \o lintDiagramFrom(c, rules, r + 1, dg, file)

(***************************************************************************)
(* The inputs: lines of diagram source and of markdown                     *)
(***************************************************************************)
LnBlank == <<>>
LnComment == <<"%","%"," ","n","o","t","e">>
LnFlowLR == <<"f","l","o","w","c","h","a","r","t"," ","L","R">>
LnFlowXX == <<"f","l","o","w","c","h","a","r","t"," ","X","X">>
LnGraphTd == <<"G","r","a","p","h"," ","t","d">>
LnGraph == <<"g","r","a","p","h">>
LnPie == <<"p","i","e">>
LnSequenceTD == <<"s","e","q","u","e","n","c","e","D","i","a","g","r","a","m",
                  " ","T","D">>
LnBad == <<"b","a","d","t","y","p","e">>
LnEdgeAB == <<" "," ","A"," ","-","-",">"," ","B">>
LnOrphan == <<" "," ","C","[","O","r","p","h","a","n","]">>
LnDefs == <<" "," ","A","[","S","t","a","r","t","]"," ","-","-",">"," ",
            "B","[","E","n","d","]">>
LnChain == <<" "," ","A"," ","-","-",">"," ","B"," ","-","-",">"," ","C">>
LnEdgeDef == <<" "," ","B"," ","-","-",">"," ","C","[","E","n","d","]">>
LnCompact == <<" "," ","B","-","-",">","D">>
LnFence == <<BT,BT,BT,"m","e","r","m","a","i","d">>
LnClose == <<BT,BT,BT>>
LnPython == <<BT,BT,BT,"p","y","t","h","o","n">>
LnLong == <<XRUN>>

\* what a source starts with: nothing, or a blank or comment line, then
\* possibly a declaration line
LeadLines == {<<>>, <<LnBlank>>, <<LnComment>>}

DeclLines == {<<>>, <<LnFlowLR>>, <<LnFlowXX>>, <<LnGraphTd>>, <<LnGraph>>,
              <<LnPie>>, <<LnSequenceTD>>, <<LnBad>>}

BodyLines == {LnEdgeAB, LnOrphan, LnDefs, LnChain, LnEdgeDef, LnCompact}

DocLines ==
    {LnFence, LnClose, LnPython, LnFlowXX, LnEdgeAB}

SeqsUpTo(S, n) == UNION {[1..k -> S] : k \in 0..n}

\* node-has-label disabled as in TestLintSource_DisabledRule, no entry for
\* no-orphan-nodes, and two severities that are not the defaults
CustomConfig ==
    [n \in {"no-unknown-diagram-type", "no-empty-diagram", "valid-direction",
            "no-duplicate-node-ids", "node-has-label"} |->
        [Enabled |-> n # "node-has-label",
         Severity |-> CASE n = "no-unknown-diagram-type" -> SeverityWarning
                        [] n = "valid-direction" -> SeverityInfo
                        [] OTHER -> DefaultConfig[n].Severity]]

\* no config file: the Linter is made by New on a Config built in the program
NoConfigFile == [kind |-> "none", rules |-> <<>>]

\* the rule objects of a config file: each of the two members given or left
\* out
RuleObjects ==
    {o \in [hasEnabled : BOOLEAN, enabled : BOOLEAN, hasSeverity : BOOLEAN,
            severity : {"", SeverityError, SeverityInfo}] :
        /\ ~o.hasEnabled => ~o.enabled
        /\ o.hasSeverity <=> o.severity # ""}

\* the rule names of a config file, one of them not the name of a rule
FileRuleNames == {"no-unknown-diagram-type", "node-has-label", "my-rule"}

\* what can be at the path given to LoadConfig
ConfigFiles ==
    {[kind |-> k, rules |-> <<>>] :
        k \in {"missing", "unreadable", "invalid", "no rules", "null rules"}}
    \cup {[kind |-> "rules", rules |-> r] :
            r \in UNION {[M -> RuleObjects] : M \in SUBSET FileRuleNames}}

\* the calls: which entry point, on a Linter of which config, for which file
Calls ==
    { [mode |-> "source", config |-> DefaultConfig, filename |-> "test.mmd"],
      [mode |-> "source", config |-> CustomConfig, filename |-> "custom.mmd"],
      [mode |-> "markdown", config |-> DefaultConfig, filename |-> "test.md"] }

\* the documents of the calls of LintMarkdownReader, as lines: the lines
\* after a line that the scanner cannot deliver are never read
Documents ==
    SeqsUpTo(DocLines, MaxDocLines)
        \cup {ls \o <<LnLong>> : ls \in SeqsUpTo(DocLines, MaxDocLines - 1)}

\* the sources of the calls of LintSource, as lines
Sources ==
    {a \o b \o c : a \in LeadLines, b \in DeclLines,
                   c \in SeqsUpTo(BodyLines, MaxBodyLines)}

(***************************************************************************)
(* State                                                                   *)
(***************************************************************************)
VARIABLES
    mode,       \* "source": LintSource was called; "markdown": LintMarkdownReader
    source,     \* LintSource's source
    reader,     \* LintMarkdownReader's r, as the lines its scanner delivers
    readFailed, \* the reader returned an error other than io.EOF
    filename,   \* the filename argument
    config,     \* l.Config
    configFile, \* what is at the path given to LoadConfig
    loadErr,    \* the error LoadConfig returns (TRUE: non-nil)
    linter,     \* the Linter that goroutines share
    goroutines, \* the goroutines that run lintDiagram on it: their locals
    pc,         \* where the call is: "scan", "parse", "flowchart", "lint", "done"
    lineNum,    \* ExtractMermaidBlocks: lineNum
    current,    \* ExtractMermaidBlocks: current
    lines,      \* ExtractMermaidBlocks: lines
    blocks,     \* ExtractMermaidBlocks: blocks
    err,        \* the error LintMarkdownReader returns (TRUE: non-nil)
    blockIdx,   \* LintMarkdownReader: the block of the range loop (1-based)
    d,          \* the Diagram under construction or under evaluation
    seenNodes,  \* parseFlowchart: seenNodes
    i,          \* parseFlowchart: i
    ruleIdx,    \* lintDiagram: the rule of the range loop (1-based)
    dfindings,  \* lintDiagram: findings
    findings    \* the findings the call returns

vars == <<mode, source, reader, readFailed, filename, config, configFile,
          loadErr, linter, goroutines, pc, lineNum,
          current, lines, blocks, err, blockIdx, d, seenNodes, i, ruleIdx,
          dfindings, findings>>

inputVars == <<mode, source, reader, filename, config>>
loadVars == <<configFile, loadErr>>
sharedVars == <<linter, goroutines>>

\* no Linter is shared, no goroutine runs
NoLinter == [Config |-> NilConfig, Rules |-> <<>>]
scanVars == <<lineNum, current, lines, blocks>>
parseVars == <<d, seenNodes, i>>
lintVars == <<ruleIdx, dfindings>>

NoDiagram == NewDiagram(<<>>, 0)

InitWork ==
    /\ readFailed = FALSE
    /\ lineNum = 0
    /\ current = NoBlock
    /\ lines = <<>>
    /\ blocks = <<>>
    /\ err = FALSE
    /\ blockIdx = 0
    /\ d = NoDiagram
    /\ seenNodes = {}
    /\ i = 0
    /\ ruleIdx = 0
    /\ dfindings = <<>>
    /\ findings = <<>>

\* l.LintSource(source, filename) on a Linter made by New(config)
InitSource ==
    /\ mode = "source"
    /\ source \in {Join(ls) : ls \in Sources}
    /\ reader = <<>>
    /\ pc = "parse"

\* l.LintMarkdownReader(r, filename) on a Linter made by New(config)
InitMarkdown ==
    /\ mode = "markdown"
    /\ source = <<>>
    /\ reader \in Documents
    /\ pc = "scan"

Init ==
    /\ \E c \in Calls :
          /\ mode = c.mode
          /\ config = c.config
          /\ filename = c.filename
    /\ configFile = NoConfigFile
    /\ loadErr = FALSE
    /\ linter = NoLinter
    /\ goroutines = <<>>
    /\ InitWork
    /\ InitSource \/ InitMarkdown

(***************************************************************************)
(* ExtractMermaidBlocks                                                    *)
(***************************************************************************)
\* scanner.Scan() delivers the next line
Scan ==
    /\ pc = "scan"
    /\ lineNum < Len(reader)
    /\ FitsBuffer(reader[lineNum + 1])
    /\ LET st == ScanStep([lineNum |-> lineNum, current |-> current,
                           lines |-> lines, blocks |-> blocks],
                          reader[lineNum + 1])
       IN  /\ lineNum' = st.lineNum
           /\ current' = st.current
           /\ lines' = st.lines
           /\ blocks' = st.blocks
    /\ UNCHANGED <<inputVars, loadVars, sharedVars, readFailed, pc, err, blockIdx, parseVars, lintVars,
                   findings>>

\* the input ends (io.EOF), scanner.Err() is nil: LintMarkdownReader goes on to the
\* blocks, and returns at once when there is none
ScanEnd ==
    /\ pc = "scan"
    /\ lineNum = Len(reader)
    /\ LET bs == BlocksAtEnd([lineNum |-> lineNum, current |-> current,
                              lines |-> lines, blocks |-> blocks])
       IN  /\ blocks' = bs
           /\ pc' = IF Len(bs) = 0 THEN "done" ELSE "parse"
           /\ blockIdx' = IF Len(bs) = 0 THEN 0 ELSE 1
    /\ UNCHANGED <<inputVars, loadVars, sharedVars, readFailed, lineNum, current, lines, err, parseVars,
                   lintVars, findings>>

\* the next line does not fit the scanner's buffer: scanner.Scan() returns
\* false, scanner.Err() is bufio.ErrTooLong, ExtractMermaidBlocks returns
\* nil, err and LintMarkdownReader nil, err
ScanTooLong ==
    /\ pc = "scan"
    /\ lineNum < Len(reader)
    /\ ~FitsBuffer(reader[lineNum + 1])
    /\ err' = TRUE
    /\ blocks' = <<>>
    /\ findings' = <<>>
    /\ pc' = "done"
    /\ UNCHANGED <<inputVars, loadVars, sharedVars, readFailed, lineNum, current, lines, blockIdx,
                   parseVars, lintVars>>

\* reading fails after the lines scanned so far (the reader returns an error
\* other than io.EOF), scanner.Err() is that error: ExtractMermaidBlocks
\* returns nil, err and LintMarkdownReader nil, err
ScanFail ==
    /\ pc = "scan"
    /\ readFailed' = TRUE
    /\ err' = TRUE
    /\ blocks' = <<>>
    /\ findings' = <<>>
    /\ pc' = "done"
    /\ UNCHANGED <<inputVars, loadVars, sharedVars, lineNum, current, lines, blockIdx, parseVars,
                   lintVars>>

(***************************************************************************)
(* Parse                                                                   *)
(***************************************************************************)
\* the arguments of the call of Parse
ParseSource == IF mode = "source" THEN source ELSE blocks[blockIdx].Source

\* the line of the opening fence itself
ParseStartLineOfFence == IF mode = "source" THEN 1 ELSE blocks[blockIdx].StartLine

ParseStartLine == IF mode = "source" THEN 1 ELSE blocks[blockIdx].StartLine + 1

\* Parse up to the return of parseType
ParseDiagram ==
    /\ pc = "parse"
    /\ LET ls == Split(ParseSource)
           dg == parseType(NewDiagram(ls, ParseStartLine), ls)
       IN  /\ d' = dg
           /\ pc' = IF IsFlow(dg.Type) THEN "flowchart" ELSE "lint"
           /\ ruleIdx' = IF IsFlow(dg.Type) THEN ruleIdx ELSE 1
    /\ seenNodes' = {}
    /\ i' = 0
    /\ dfindings' = <<>>
    /\ UNCHANGED <<inputVars, loadVars, sharedVars, readFailed, scanVars, err, blockIdx, findings>>

\* one iteration of the loop of parseFlowchart; after the last one Parse
\* returns and lintDiagram starts
ParseFlowchartLine ==
    /\ pc = "flowchart"
    /\ i < Len(d.Lines)
    /\ LET ps == FlowchartLine([d |-> d, seen |-> seenNodes], i, d.Lines[i + 1])
       IN  /\ d' = ps.d
           /\ seenNodes' = ps.seen
    /\ i' = i + 1
    /\ pc' = IF i + 1 = Len(d.Lines) THEN "lint" ELSE "flowchart"
    /\ ruleIdx' = IF i + 1 = Len(d.Lines) THEN 1 ELSE ruleIdx
    /\ UNCHANGED <<inputVars, loadVars, sharedVars, readFailed, scanVars, err, blockIdx, dfindings,
                   findings>>

(***************************************************************************)
(* lintDiagram, LintSource, LintMarkdownReader                             *)
(***************************************************************************)
\* one iteration of the loop of lintDiagram
LintRule ==
    /\ pc = "lint"
    /\ ruleIdx <= Len(AllRules)
    /\ dfindings' = dfindings \o RuleFindings(config, AllRules[ruleIdx], d, filename)
    /\ ruleIdx' = ruleIdx + 1
    /\ UNCHANGED <<inputVars, loadVars, sharedVars, readFailed, scanVars, err, blockIdx, parseVars, pc,
                   findings>>

\* lintDiagram returns: LintSource returns its findings, LintMarkdownReader
\* appends them and goes on to the next block, or returns after the last
LintReturn ==
    /\ pc = "lint"
    /\ ruleIdx > Len(AllRules)
    /\ findings' = findings \o dfindings
    /\ IF mode = "markdown" /\ blockIdx < Len(blocks)
       THEN /\ blockIdx' = blockIdx + 1
            /\ pc' = "parse"
       ELSE /\ blockIdx' = blockIdx
            /\ pc' = "done"
    /\ UNCHANGED <<inputVars, loadVars, sharedVars, readFailed, scanVars, err, parseVars, lintVars>>

Next ==
    \/ Scan
    \/ ScanEnd
    \/ ScanTooLong
    \/ ScanFail
    \/ ParseDiagram
    \/ ParseFlowchartLine
    \/ LintRule
    \/ LintReturn

Spec == Init /\ [][Next]_vars

(***************************************************************************)
(* LoadConfig, then New(cfg) and LintSource, as main does                  *)
(***************************************************************************)
InitConfig ==
    /\ configFile \in ConfigFiles
    /\ loadErr = FALSE
    /\ config = NilConfig
    /\ linter = NoLinter
    /\ goroutines = <<>>
    /\ mode = "source"
    /\ source = Join(<<LnFlowXX, LnEdgeAB>>)
    /\ reader = <<>>
    /\ filename = "test.mmd"
    /\ InitWork
    /\ pc = "load"

\* cfg, err := config.LoadConfig(path); main exits on an error and makes the
\* Linter of cfg otherwise
LoadConfigCall ==
    /\ pc = "load"
    /\ LET r == LoadConfig(configFile)
       IN  /\ config' = r.cfg
           /\ loadErr' = r.err
           /\ pc' = IF r.err THEN "done" ELSE "parse"
    /\ UNCHANGED <<mode, source, reader, filename, configFile, sharedVars,
                   readFailed, scanVars, err, blockIdx, parseVars, lintVars, findings>>

NextConfig ==
    \/ LoadConfigCall
    \/ ParseDiagram
    \/ ParseFlowchartLine
    \/ LintRule
    \/ LintReturn

SpecConfig == InitConfig /\ [][NextConfig]_vars

(***************************************************************************)
(* Goroutines that each lint one diagram on one shared Linter              *)
(***************************************************************************)
\* the sources of the diagrams the goroutines are given
SharedSources ==
    { Join(<<LnFlowXX, LnEdgeAB>>), Join(<<LnFlowLR, LnEdgeAB, LnOrphan>>),
      Join(<<LnGraph>>), Join(<<LnBad, LnEdgeAB>>) }

\* the locals of a goroutine at its call of l.lintDiagram(d, filename); d0
\* is the Diagram as Parse returned it
Goroutine(src, file) ==
    LET dg == Parse(src, 1)
    IN  [d0 |-> dg, d |-> dg, filename |-> file, ruleIdx |-> 1,
         findings |-> <<>>, returned |-> FALSE]

InitShared ==
    /\ config \in {DefaultConfig, CustomConfig}
    /\ linter = New(config)
    /\ \E srcs \in [1..NumGoroutines -> SharedSources] :
          goroutines = [g \in 1..NumGoroutines |->
                           Goroutine(srcs[g], IF g = 1 THEN "a.mmd" ELSE "b.mmd")]
    /\ configFile = NoConfigFile
    /\ loadErr = FALSE
    /\ mode = "shared"
    /\ source = <<>>
    /\ reader = <<>>
    /\ filename = ""
    /\ InitWork
    /\ pc = "shared"

\* goroutine g runs one iteration of the loop of lintDiagram
GoLintRule(g) ==
    /\ pc = "shared"
    /\ ~goroutines[g].returned
    /\ goroutines[g].ruleIdx <= Len(linter.Rules)
    /\ LET r == LintStep(linter, goroutines[g])
       IN  /\ linter' = r.l
           /\ goroutines' = [goroutines EXCEPT ![g] = r.g]
    /\ UNCHANGED <<inputVars, loadVars, readFailed, scanVars, err, blockIdx,
                   parseVars, lintVars, pc, findings>>

\* lintDiagram returns in goroutine g
GoLintReturn(g) ==
    /\ pc = "shared"
    /\ ~goroutines[g].returned
    /\ goroutines[g].ruleIdx > Len(linter.Rules)
    /\ goroutines' = [goroutines EXCEPT ![g].returned = TRUE]
    /\ UNCHANGED <<inputVars, loadVars, linter, readFailed, scanVars, err,
                   blockIdx, parseVars, lintVars, pc, findings>>

NextShared ==
    \/ \E g \in DOMAIN goroutines : GoLintRule(g)
    \/ \E g \in DOMAIN goroutines : GoLintReturn(g)

SpecShared == InitShared /\ [][NextShared]_vars

(***************************************************************************)
(* LintSource on flowcharts of arrow lines with and without inline         *)
(* definitions                                                             *)
(***************************************************************************)
\* the line `x<b1> --> y<b2>`, the b an inline bracket group or nothing
ArrowLine(x, b1, y, b2) ==
    <<" ", " ">> \o x \o b1 \o <<" ", "-", "-", ">", " ">> \o y \o b2

\* what an arrow line is made of
ArrowParts ==
    [x : {<<"A">>, <<"C">>},
     b1 : {<<>>, <<"[","S","t","a","r","t","]">>, <<"(","S","t","a","r","t",")">>},
     y : {<<"B">>},
     b2 : {<<>>, <<"[","E","n","d","]">>}]

ArrowLines == {ArrowLine(a.x, a.b1, a.y, a.b2) : a \in ArrowParts}

ArrowSources ==
    {<<LnFlowLR>> \o c : c \in SeqsUpTo(ArrowLines, MaxArrowLines)}

InitArrows ==
    /\ mode = "source"
    /\ source \in {Join(ls) : ls \in ArrowSources}
    /\ reader = <<>>
    /\ filename = "test.mmd"
    /\ config = DefaultConfig
    /\ configFile = NoConfigFile
    /\ loadErr = FALSE
    /\ linter = NoLinter
    /\ goroutines = <<>>
    /\ InitWork
    /\ pc = "parse"

NextArrows ==
    \/ ParseDiagram
    \/ ParseFlowchartLine
    \/ LintRule
    \/ LintReturn

SpecArrows == InitArrows /\ [][NextArrows]_vars

(***************************************************************************)
(* Properties                                                              *)
(***************************************************************************)
OfRule(fs, rule) == SelectSeq(fs, LAMBDA f : f.Rule = rule)

\* the call has returned its findings without an error
Returned == pc = "done" /\ ~err

\* lintDiagram has run every rule on d
Linted == pc = "lint" /\ ruleIdx > Len(AllRules)

\* the lines of d that the structural scan reads (0-based indices)
ScannedLines(dg) ==
    {k \in 0..(Len(dg.Lines) - 1) : ~SkipsLine(k, TrimSpace(dg.Lines[k + 1]))}

\* the node ids that occur in a line, as an edge endpoint or as a definition
IdsOnLine(line) ==
    LET t == TrimSpace(line)
        es == EdgeMatches(t)
        ns == NodeMatches(t)
    IN  {es[k].from : k \in DOMAIN es} \cup {es[k].to : k \in DOMAIN es}
            \cup {ns[k].id : k \in DOMAIN ns}

\* the (0-based) lines of d on which the id occurs
LinesOfId(dg, id) == {k \in ScannedLines(dg) : id \in IdsOnLine(dg.Lines[k + 1])}

AllIds(dg) == UNION {IdsOnLine(dg.Lines[k + 1]) : k \in ScannedLines(dg)}

\* C1: every line on which a node id occurs again after the line of its
\* first occurrence has a no-duplicate-node-ids finding at that line whose
\* message names the id and the line of the first occurrence (rule enabled).
C1_DuplicateReported ==
    (Linted /\ IsFlow(d.Type) /\ "no-duplicate-node-ids" \in DOMAIN config
        /\ config["no-duplicate-node-ids"].Enabled)
    => \A id \in AllIds(d) :
         \A k \in LinesOfId(d, id) :
            k > Min(LinesOfId(d, id))
            => \E n \in DOMAIN dfindings :
                 /\ dfindings[n].Rule = "no-duplicate-node-ids"
                 /\ dfindings[n].Line = d.StartLine + k
                 /\ dfindings[n].Message.id = id
                 /\ dfindings[n].Message.line = d.StartLine + Min(LinesOfId(d, id))

\* C2: every finding, in lintDiagram's list and in the returned list, is of
\* a rule that has an entry in the config whose enabled is true.
C2_OnlyEnabledRules ==
    /\ \A n \in DOMAIN dfindings :
          /\ dfindings[n].Rule \in DOMAIN config
          /\ config[dfindings[n].Rule].Enabled
    /\ \A n \in DOMAIN findings :
          /\ findings[n].Rule \in DOMAIN config
          /\ config[findings[n].Rule].Enabled

\* a call returned with a rule disabled and a rule without entry that both
\* have something to report on the diagram
C2_Witness ==
    /\ Returned
    /\ findings # <<>>
    /\ "no-orphan-nodes" \notin DOMAIN config
    /\ NoOrphanNodes(d) # <<>>
    /\ ~config["node-has-label"].Enabled
    /\ NodeHasLabel(d) # <<>>

\* a finding with File and Severity cleared, as the rule returned it
Unstamped(fs) == [k \in DOMAIN fs |-> [fs[k] EXCEPT !.File = "", !.Severity = ""]]

\* the Check output of the first n rules that have an enabled entry
RECURSIVE CheckedUpTo(_, _)
CheckedUpTo(n, dg) ==
    IF n = 0 THEN <<>>
    ELSE CheckedUpTo(n - 1, dg)
         \o (IF AllRules[n] \in DOMAIN config /\ config[AllRules[n]].Enabled
             THEN Check(AllRules[n], dg) ELSE <<>>)

\* C3: every finding has the caller's filename as file and the severity the
\* config gives its rule, and lintDiagram's list is otherwise (rule, message,
\* line) the Check output of the rules run so far.
C3_FileAndSeverity ==
    /\ \A n \in DOMAIN findings :
          /\ findings[n].File = filename
          /\ findings[n].Severity = config[findings[n].Rule].Severity
    /\ pc = "lint" =>
          /\ Unstamped(dfindings) = CheckedUpTo(ruleIdx - 1, d)
          /\ \A n \in DOMAIN dfindings :
                /\ dfindings[n].File = filename
                /\ dfindings[n].Severity = config[dfindings[n].Rule].Severity

\* a call returned a finding whose configured severity is not the default
\* one of its rule
C3_Witness ==
    /\ Returned
    /\ \E n \in DOMAIN findings :
          /\ findings[n].Rule = "valid-direction"
          /\ findings[n].Severity = SeverityInfo
          /\ findings[n].File = "custom.mmd"

\* the registry order the claim names
C4_RegistryOrder ==
    << "no-unknown-diagram-type", "no-empty-diagram", "valid-direction",
       "no-duplicate-node-ids", "node-has-label", "no-orphan-nodes" >>

\* the findings of one diagram: rule after rule in that order, each enabled
\* rule's Check output as produced, with file and severity filled in
RECURSIVE C4_DiagramFindings(_, _)
C4_DiagramFindings(n, dg) ==
    IF n = 0 THEN <<>>
    ELSE LET rule == C4_RegistryOrder[n]
             out == IF rule \in DOMAIN config /\ config[rule].Enabled
                    THEN Check(rule, dg) ELSE <<>>
         IN  C4_DiagramFindings(n - 1, dg)
             \o [k \in DOMAIN out |->
                    [out[k] EXCEPT !.File = filename,
                                   !.Severity = config[rule].Severity]]

\* the findings of the first n blocks, block after block
RECURSIVE C4_DocumentFindings(_)
C4_DocumentFindings(n) ==
    IF n = 0 THEN <<>>
    ELSE C4_DocumentFindings(n - 1)
         \o C4_DiagramFindings(Len(C4_RegistryOrder),
                Parse(blocks[n].Source, blocks[n].StartLine + 1))

\* C4: the findings LintMarkdownReader returns are the blocks' findings in
\* block order, each block's findings in registry order and, within a rule,
\* in the order produced, nothing removed or reordered.
C4_ConcatenationInOrder ==
    (Returned /\ mode = "markdown")
    => findings = C4_DocumentFindings(Len(blocks))

\* a document of two blocks, the first with findings of two rules, the
\* second with a finding of its own
C4_Witness ==
    /\ Returned
    /\ mode = "markdown"
    /\ Len(blocks) = 2
    /\ Len(findings) >= 3
    /\ findings[1].Rule # findings[2].Rule
    /\ findings[1].Line = findings[2].Line
    /\ findings[Len(findings)].Line > findings[1].Line

\* the lines of a source that are neither blank nor a comment
C5_Significant(ls) ==
    {k \in DOMAIN ls :
        /\ TrimSpace(ls[k]) # <<>>
        /\ ~HasPrefix(TrimSpace(ls[k]), <<"%", "%">>)}

\* the first whitespace-delimited token of the first significant line
C5_FirstToken(ls) == Fields(TrimSpace(ls[Min(C5_Significant(ls))]))[1]

C5_IsRegistryName(token) ==
    \E n \in DOMAIN KnownDiagramTypes : KnownDiagramTypes[n].key = ToLower(token)

\* C5: no-unknown-diagram-type yields at most one finding, at startLine: the
\* "no declaration" message exactly when the source has no significant line,
\* the "unknown type" message exactly when the first significant token is
\* no registry name (case-insensitively); nothing otherwise.
C5_UnknownTypeRule ==
    (Linted /\ "no-unknown-diagram-type" \in DOMAIN config
        /\ config["no-unknown-diagram-type"].Enabled)
    => LET fs == OfRule(dfindings, "no-unknown-diagram-type")
           none == C5_Significant(d.Lines) = {}
           unknown == ~none /\ ~C5_IsRegistryName(C5_FirstToken(d.Lines))
       IN  /\ Len(fs) <= 1
           /\ \A n \in DOMAIN fs : fs[n].Line = d.StartLine
           /\ none <=> (\E n \in DOMAIN fs :
                           fs[n].Message.fmt = "no diagram type declaration found")
           /\ unknown <=> (\E n \in DOMAIN fs :
                              /\ fs[n].Message.fmt = "unknown diagram type %q"
                              /\ fs[n].Message.id = C5_FirstToken(d.Lines))
           /\ (~none /\ ~unknown) => fs = <<>>
           /\ none <=> d.TypeRaw = <<>>

\* a source of comment lines only got the "no declaration" finding
C5_Witness ==
    /\ Linted
    /\ Len(d.Lines) >= 1
    /\ \E k \in DOMAIN d.Lines : d.Lines[k] = LnComment
    /\ C5_Significant(d.Lines) = {}
    /\ \E n \in DOMAIN dfindings :
          dfindings[n].Message.fmt = "no diagram type declaration found"

\* the ids that are the from or the to of some edge
C6_Endpoints(dg) ==
    {dg.Edges[k].From : k \in DOMAIN dg.Edges}
        \cup {dg.Edges[k].To : k \in DOMAIN dg.Edges}

\* "flowchart LR\n  A --> B\n  C[Orphan]"
C6_Example == Join(<<LnFlowLR, LnEdgeAB, LnOrphan>>)

\* C6: on a flowchart/graph, no-orphan-nodes finds nothing when there is no
\* edge, and otherwise exactly one finding, at the node's line, for each node
\* whose id is no edge endpoint and none for any other node; the example
\* source gets exactly one, for C.
C6_OrphanRule ==
    (Linted /\ IsFlow(d.Type) /\ "no-orphan-nodes" \in DOMAIN config
        /\ config["no-orphan-nodes"].Enabled)
    => LET fs == OfRule(dfindings, "no-orphan-nodes")
           orphans == {k \in DOMAIN d.Nodes : d.Nodes[k].ID \notin C6_Endpoints(d)}
       IN  /\ d.Edges = <<>> => fs = <<>>
           /\ d.Edges # <<>> =>
                 /\ Len(fs) = Cardinality(orphans)
                 /\ \A k \in DOMAIN d.Nodes :
                       Cardinality({n \in DOMAIN fs :
                                       /\ fs[n].Message.id = d.Nodes[k].ID
                                       /\ fs[n].Line = d.Nodes[k].Line})
                           = IF k \in orphans THEN 1 ELSE 0
           /\ (mode = "source" /\ source = C6_Example) =>
                 /\ Len(fs) = 1
                 /\ fs[1].Message.id = <<"C">>
                 /\ fs[1].Line = 3

\* the example source has been linted with the rule enabled
C6_Witness ==
    /\ Linted
    /\ mode = "source"
    /\ source = C6_Example
    /\ Len(OfRule(dfindings, "no-orphan-nodes")) = 1

\* the directions the claim names
C7_Valid == { <<"T","B">>, <<"T","D">>, <<"B","T">>, <<"L","R">>, <<"R","L">> }

\* the tokens of the declaration line of a source that has one
C7_DeclTokens(ls) == Fields(TrimSpace(ls[Min(C5_Significant(ls))]))

C7_IsFlowSource(ls) ==
    /\ C5_Significant(ls) # {}
    /\ ToLower(C7_DeclTokens(ls)[1])
           \in { <<"f","l","o","w","c","h","a","r","t">>, <<"g","r","a","p","h">> }

\* "flowchart XX\n  A --> B"
C7_Example == Join(<<LnFlowXX, LnEdgeAB>>)

\* C7: under the default config a flowchart/graph source whose declaration
\* line has a second token D gets exactly one valid-direction finding
\* (error, at startLine) if upper-cased D is none of TB, TD, BT, LR, RL and
\* none if it is; without a second token it gets none; and it never gets a
\* no-unknown-diagram-type finding.
C7_DirectionRule ==
    (Linted /\ config = DefaultConfig /\ C7_IsFlowSource(d.Lines))
    => LET fs == OfRule(dfindings, "valid-direction")
           toks == C7_DeclTokens(d.Lines)
           bad == Len(toks) >= 2 /\ ToUpper(toks[2]) \notin C7_Valid
       IN  /\ Len(fs) = IF bad THEN 1 ELSE 0
           /\ \A n \in DOMAIN fs :
                 /\ fs[n].Severity = "error"
                 /\ fs[n].Line = d.StartLine
                 /\ fs[n].Message.id = toks[2]
           /\ OfRule(dfindings, "no-unknown-diagram-type") = <<>>

\* the example source has been linted and has its one finding
C7_Witness ==
    /\ Linted
    /\ config = DefaultConfig
    /\ mode = "source"
    /\ source = C7_Example
    /\ Len(OfRule(dfindings, "valid-direction")) = 1

\* "flowchart LR\n  A --> B"
C8_Example == Join(<<LnFlowLR, LnEdgeAB>>)

\* C8: on a flowchart/graph the node-has-label findings are, in node-list
\* order, one per node of the parsed Diagram whose label is empty, at that
\* node's line; the example source gets exactly two, for A and B.
C8_LabelRule ==
    (Linted /\ IsFlow(d.Type) /\ "node-has-label" \in DOMAIN config
        /\ config["node-has-label"].Enabled)
    => LET fs == OfRule(dfindings, "node-has-label")
           bare == SelectSeq(d.Nodes, LAMBDA n : n.Label = <<>>)
       IN  /\ Len(fs) = Len(bare)
           /\ \A k \in DOMAIN fs :
                 /\ fs[k].Message.id = bare[k].ID
                 /\ fs[k].Line = bare[k].Line
           /\ (mode = "source" /\ source = C8_Example) =>
                 /\ Len(fs) = 2
                 /\ fs[1].Message.id = <<"A">>
                 /\ fs[2].Message.id = <<"B">>

\* the example source has been linted and has its two findings
C8_Witness ==
    /\ Linted
    /\ mode = "source"
    /\ source = C8_Example
    /\ Len(OfRule(dfindings, "node-has-label")) = 2

\* the lines of the document that open a mermaid fence, and that close one
C9_Opening == {k \in DOMAIN reader : isMermaidFenceOpen(TrimSpace(reader[k]))}

C9_Closing == {k \in DOMAIN reader : isClosingFence(TrimSpace(reader[k]))}

\* the document holds exactly one well-formed block: opened at L, closed at E
\* with no closing fence between them, no opening fence before L or after E
C9_OneBlock(opening, closing, L, E) ==
    /\ L \in opening
    /\ E \in closing
    /\ L < E
    /\ \A k \in closing : ~(L < k /\ k < E)
    /\ \A k \in opening : ~(k < L) /\ ~(k > E)

\* LintMarkdownReader has returned, every line delivered by the scanner and
\* the input read to its end without error
Extracted ==
    /\ mode = "markdown"
    /\ pc = "done"
    /\ ~readFailed
    /\ \A k \in DOMAIN reader : FitsBuffer(reader[k])

\* C9: from a document with exactly one well-formed block, opened at line L
\* and closed at line E, extraction emits exactly one block, with startLine
\* L, endLine E and as source the lines strictly between, newline-joined,
\* whatever they are (opening fences included).
C9_RoundTrip ==
    Extracted
    => LET opening == C9_Opening
           closing == C9_Closing
       IN  \A L \in opening : \A E \in closing :
              C9_OneBlock(opening, closing, L, E)
              => blocks = << [Source |-> Join(SubSeq(reader, L + 1, E - 1)),
                              StartLine |-> L, EndLine |-> E] >>

\* such a document, with an opening fence among the lines of the block and a
\* line before the block
C9_Witness ==
    /\ Extracted
    /\ Len(blocks) = 1
    /\ \E L, E \in DOMAIN reader :
          /\ C9_OneBlock(C9_Opening, C9_Closing, L, E)
          /\ L > 1
          /\ E > L + 2
          /\ \E k \in (L + 1)..(E - 1) : isMermaidFenceOpen(TrimSpace(reader[k]))

\* the [start, end] pairs of the blocks that are opened and closed, reading
\* the document from line k on while outside a block
RECURSIVE C10_ClosedFrom(_, _, _)
C10_ClosedFrom(opening, closing, k) ==
    LET opens == {o \in opening : o >= k}
    IN  IF opens = {} THEN <<>>
        ELSE LET o == Min(opens)
                 closes == {c \in closing : c > o}
             IN  IF closes = {} THEN <<>>
                 ELSE <<[start |-> o, end |-> Min(closes)]>>
                      \o C10_ClosedFrom(opening, closing, Min(closes) + 1)

\* C10: a block that is opened and never closed is not emitted and causes no
\* error: the blocks returned are exactly those opened and closed, and no
\* line buffered for the unterminated block is in an emitted block.
C10_UnterminatedDiscarded ==
    Extracted
    => /\ ~err
       /\ [k \in DOMAIN blocks |->
              [start |-> blocks[k].StartLine, end |-> blocks[k].EndLine]]
            = C10_ClosedFrom(C9_Opening, C9_Closing, 1)
       /\ \A k \in DOMAIN blocks :
             blocks[k].Source
                = Join(SubSeq(reader, blocks[k].StartLine + 1, blocks[k].EndLine - 1))
       /\ current.open =>
             \A k \in DOMAIN blocks : blocks[k].EndLine < current.StartLine

\* the input ended inside a block that had buffered lines, after a block
\* that was closed
C10_Witness ==
    /\ Extracted
    /\ current.open
    /\ lines # <<>>
    /\ Len(blocks) = 1

\* a fence line: it starts with three backticks or three tildes
C11_IsFence(line) == HasPrefix(line, Backticks) \/ HasPrefix(line, Tildes)

\* how a fence line is tagged
C11_Tag(line) ==
    IF isMermaidFenceOpen(line) THEN "mermaid"
    ELSE IF isClosingFence(line) THEN "none"
    ELSE "other"

\* the fenced blocks of the document, reading it from line k on while outside
\* a block: a fence line opens a block, the next bare fence line closes it
\* (a block that is never closed runs to the end of the document)
RECURSIVE C11_FencedFrom(_)
C11_FencedFrom(k) ==
    LET opens == {o \in DOMAIN reader : o >= k /\ C11_IsFence(TrimSpace(reader[o]))}
    IN  IF opens = {} THEN <<>>
        ELSE LET o == Min(opens)
                 closes == {c \in DOMAIN reader :
                               c > o /\ isClosingFence(TrimSpace(reader[c]))}
                 q == IF closes = {} THEN Len(reader) + 1 ELSE Min(closes)
             IN  <<[open |-> o, close |-> q, tag |-> C11_Tag(TrimSpace(reader[o]))]>>
                 \o C11_FencedFrom(q + 1)

\* C11: a fenced block tagged with another language than mermaid is ignored
\* as a whole: no line strictly between its opening and its closing fence is
\* the start of, or lies in, an extracted block; and a document whose fenced
\* blocks are all tagged with other languages yields no block and no finding.
C11_OtherLanguageIgnored ==
    Extracted
    => LET fenced == C11_FencedFrom(1)
       IN  /\ \A n \in DOMAIN fenced :
                 fenced[n].tag = "other"
                 => \A b \in DOMAIN blocks :
                       \A k \in (fenced[n].open + 1)..(fenced[n].close - 1) :
                          ~(blocks[b].StartLine <= k /\ k <= blocks[b].EndLine)
           /\ (\A n \in DOMAIN fenced : fenced[n].tag = "other")
                 => blocks = <<>> /\ findings = <<>>

\* the rules whose findings are about one node, and about the whole diagram
C12_NodeLevel == {"no-duplicate-node-ids", "node-has-label", "no-orphan-nodes"}

C12_DiagramLevel == {"no-unknown-diagram-type", "no-empty-diagram", "valid-direction"}

\* the document line of the opening fence of the diagram under evaluation
\* (0 for LintSource, whose first source line is line 1)
C12_FenceLine == IF mode = "source" THEN 0 ELSE blocks[blockIdx].StartLine

\* the ids that occur on each line of d that the structural scan reads, by
\* the 0-based index of the line
C12_IdsByLine(dg) ==
    [k \in 0..(Len(dg.Lines) - 1) |->
        IF SkipsLine(k, TrimSpace(dg.Lines[k + 1])) THEN {}
        ELSE IdsOnLine(dg.Lines[k + 1])]

\* C12: with L the document line of the opening fence (0 for LintSource), a
\* node registered from the j-th source line has line L+j, which in a
\* document is the line on which its id appears; every node-level finding
\* reports the line of its node and every diagram-level finding line L+1.
C12_AbsoluteLines ==
    Linted
    => LET L == C12_FenceLine
           ids == C12_IdsByLine(d)
       IN  /\ mode = "source" => d.Lines = Split(source)
           /\ \A n \in DOMAIN d.Nodes :
                 LET id == d.Nodes[n].ID
                     j == Min({k \in DOMAIN ids : id \in ids[k]}) + 1
                 IN  /\ d.Nodes[n].Line = L + j
                     /\ mode = "markdown" => reader[L + j] = d.Lines[j]
           /\ \A f \in DOMAIN dfindings :
                 /\ dfindings[f].Rule \in C12_NodeLevel
                       => \E n \in DOMAIN d.Nodes :
                             /\ d.Nodes[n].ID = dfindings[f].Message.id
                             /\ d.Nodes[n].Line = dfindings[f].Line
                 /\ dfindings[f].Rule \in C12_DiagramLevel
                       => dfindings[f].Line = L + 1

\* a block whose opening fence is not the first line of the document has a
\* diagram-level finding and a node-level finding for its second source line
C12_Witness ==
    /\ Linted
    /\ mode = "markdown"
    /\ C12_FenceLine > 1
    /\ \E f \in DOMAIN dfindings :
          /\ dfindings[f].Rule \in C12_DiagramLevel
          /\ dfindings[f].Line = C12_FenceLine + 1
    /\ \E f \in DOMAIN dfindings :
          /\ dfindings[f].Rule \in C12_NodeLevel
          /\ dfindings[f].Line = C12_FenceLine + 2

\* the first significant token names a diagram type of the registry other
\* than flowchart and graph, in any letter case
C13_OtherKnownType(ls) ==
    LET sig == C5_Significant(ls)
    IN  /\ sig # {}
        /\ LET token == ToLower(Fields(TrimSpace(ls[Min(sig)]))[1])
           IN  /\ \E n \in DOMAIN KnownDiagramTypes : KnownDiagramTypes[n].key = token
               /\ token \notin { <<"f","l","o","w","c","h","a","r","t">>,
                                  <<"g","r","a","p","h">> }

\* C13: for a source whose first significant token is a known diagram type
\* other than flowchart or graph, Parse returns a Diagram without nodes,
\* edges and direction, and linting it yields no finding, whatever the
\* config of the call.
C13_OtherTypesOnlyClassified ==
    (Linted \/ (Returned /\ mode = "source"))
    => (C13_OtherKnownType(d.Lines)
        => /\ d.Nodes = <<>>
           /\ d.Edges = <<>>
           /\ d.Direction = <<>>
           /\ dfindings = <<>>
           /\ mode = "source" => (d.Lines = Split(source) /\ findings = <<>>))

\* such a source, its type not written in lower case, with a second token
\* on the declaration line and a line that holds an edge, was linted
C13_Witness ==
    /\ Returned
    /\ mode = "source"
    /\ C13_OtherKnownType(d.Lines)
    /\ C5_FirstToken(d.Lines) # ToLower(C5_FirstToken(d.Lines))
    /\ Len(C7_DeclTokens(d.Lines)) > 1
    /\ \E k \in DOMAIN d.Lines : EdgeMatches(TrimSpace(d.Lines[k])) # <<>>
    /\ findings = <<>>

\* C14: LintMarkdownReader returns a non-nil error exactly when reading the
\* stream fails, and then returns no findings; fence syntax of any kind
\* produces no error.
C14_ErrorIffReadFails ==
    (mode = "markdown" /\ pc = "done")
    => /\ err <=> readFailed
       /\ err => findings = <<>>

\* the defaults the claim names
C15_Defaults ==
    [n \in {"no-unknown-diagram-type", "no-empty-diagram", "valid-direction",
            "no-duplicate-node-ids", "node-has-label", "no-orphan-nodes"} |->
        [Enabled |-> TRUE,
         Severity |-> CASE n \in {"no-unknown-diagram-type", "valid-direction"}
                             -> "error"
                        [] n = "node-has-label" -> "info"
                        [] OTHER -> "warning"]]

\* LoadConfig has returned
C15_Loaded == configFile # NoConfigFile /\ pc # "load"

\* C15: LoadConfig returns the default configuration and no error when the
\* file does not exist; when the file's rules override some rule names,
\* these rules have the enabled and the severity the file gives, and every
\* rule name the file does not mention keeps its default.
C15_LoadConfigDefaults ==
    C15_Loaded
    => /\ configFile.kind = "missing" => (~loadErr /\ config = C15_Defaults)
       /\ configFile.kind = "rules"
             => /\ ~loadErr
                /\ \A n \in DOMAIN configFile.rules :
                      /\ n \in DOMAIN config
                      /\ configFile.rules[n].hasEnabled
                            => config[n].Enabled = configFile.rules[n].enabled
                      /\ configFile.rules[n].hasSeverity
                            => config[n].Severity = configFile.rules[n].severity
                /\ \A n \in DOMAIN C15_Defaults \ DOMAIN configFile.rules :
                      /\ n \in DOMAIN config
                      /\ config[n] = C15_Defaults[n]

\* a file was loaded that gives a rule an enabled and a severity other than
\* its defaults and leaves other rules out
C15_Witness ==
    /\ C15_Loaded
    /\ configFile.kind = "rules"
    /\ "node-has-label" \in DOMAIN configFile.rules
    /\ "no-unknown-diagram-type" \notin DOMAIN configFile.rules
    /\ config["node-has-label"] = [Enabled |-> FALSE, Severity |-> "error"]
    /\ config["no-unknown-diagram-type"] = [Enabled |-> TRUE, Severity |-> "error"]

\* C16: rule evaluation has no side effects: whatever the interleaving of
\* the goroutines, the shared Linter keeps its Config and its rule registry
\* and every Diagram stays as it was parsed, so the findings of a goroutine
\* whose lintDiagram has returned are those of linting its diagram alone,
\* and before that what it has so far is the beginning of that list.
C16_NoSideEffects ==
    pc = "shared"
    => /\ linter = [Config |-> config, Rules |-> AllRules]
       /\ \A g \in DOMAIN goroutines :
             LET gr == goroutines[g]
                 alone == lintDiagramFrom(config, AllRules, 1, gr.d0, gr.filename)
             IN  /\ gr.d = gr.d0
                 /\ gr.returned => gr.findings = alone
                 /\ Len(gr.findings) <= Len(alone)
                 /\ gr.findings = SubSeq(alone, 1, Len(gr.findings))

\* two goroutines have returned different, non-empty findings, one having
\* run rules while the other was inside lintDiagram
C16_Witness ==
    /\ pc = "shared"
    /\ goroutines[1].returned
    /\ goroutines[1].findings # <<>>
    /\ goroutines[2].findings # <<>>
    /\ goroutines[2].d0 # goroutines[1].d0
    /\ goroutines[2].ruleIdx > 1
    /\ goroutines[2].ruleIdx <= Len(AllRules)

\* the diagram has an edge with these endpoints and this style on that line
C17_HasEdge(dg, from, to, style, line) ==
    \E e \in DOMAIN dg.Edges :
        /\ dg.Edges[e].From = from
        /\ dg.Edges[e].To = to
        /\ dg.Edges[e].Style = style
        /\ dg.Edges[e].Line = line

\* C17: a structural line `A --> B --> C` registers two edges on its line,
\* A to B and B to C, each with style -->, so that A, B and C are all edge
\* endpoints.
C17_ChainedEdges ==
    (pc = "lint" /\ IsFlow(d.Type))
    => \A k \in ScannedLines(d) :
          d.Lines[k + 1] = LnChain
          => /\ C17_HasEdge(d, <<"A">>, <<"B">>, <<"-","-",">">>, d.StartLine + k)
             /\ C17_HasEdge(d, <<"B">>, <<"C">>, <<"-","-",">">>, d.StartLine + k)
             /\ {<<"A">>, <<"B">>, <<"C">>}
                   \subseteq {d.Edges[e].From : e \in DOMAIN d.Edges}
                                \cup {d.Edges[e].To : e \in DOMAIN d.Edges}

\* the definitions on a line that have a non-empty label, in the order of
\* the line; none when the structural scan skips the line (k is the 0-based
\* index of the line)
C18_LabelledOn(k, line) ==
    IF SkipsLine(k, TrimSpace(line)) THEN <<>>
    ELSE SelectSeq(NodeMatches(TrimSpace(line)), LAMBDA m : m.label # <<>>)

\* those of them that define the id
C18_Of(defs, id) == SelectSeq(defs, LAMBDA m : m.id = id)

C18_Labelled(k, line, id) == C18_Of(C18_LabelledOn(k, line), id)

\* what the scan of one line may do to a node: id and line stay; a label
\* that is not empty stays with its shape; an empty label becomes that of
\* the first labelled definition of the id on the line, with its shape, and
\* stays empty when the line has none
C18_NodeStep(old, new, defs) ==
    /\ new.ID = old.ID
    /\ new.Line = old.Line
    /\ old.Label # <<>> => new = old
    /\ (old.Label = <<>> /\ defs = <<>>) => new = old
    /\ (old.Label = <<>> /\ defs # <<>>)
          => (new.Label = defs[1].label /\ new.Shape = defs[1].shape)

\* C18: label backfill is write-once: in every step of the structural scan
\* each node already registered keeps its id and line, takes label and shape
\* of the first labelled definition of its id if its label was empty, and
\* keeps label and shape if its label was not empty; a node registered in
\* the step has the line of the step and the label of the first labelled
\* definition of its id on that line, if any.
C18_BackfillWriteOnce ==
    [][ pc = "flowchart"
        => LET labelled == C18_LabelledOn(i, d.Lines[i + 1])
           IN  /\ Len(d'.Nodes) >= Len(d.Nodes)
               /\ \A n \in DOMAIN d.Nodes :
                     C18_NodeStep(d.Nodes[n], d'.Nodes[n],
                                  C18_Of(labelled, d.Nodes[n].ID))
               /\ \A n \in (Len(d.Nodes) + 1)..Len(d'.Nodes) :
                     LET defs == C18_Of(labelled, d'.Nodes[n].ID)
                     IN  /\ d'.Nodes[n].Line = d.StartLine + i
                         /\ d'.Nodes[n].Label
                               = IF defs = <<>> THEN <<>> ELSE defs[1].label
      ]_vars

\* a node registered without label as the endpoint of an edge has taken the
\* label of a definition and kept it through a later definition of its id
\* with another label
C18_Witness ==
    /\ pc = "lint"
    /\ IsFlow(d.Type)
    /\ \E n \in DOMAIN d.Nodes : \E k \in 0..(Len(d.Lines) - 1) :
          LET node == d.Nodes[n]
              es == EdgeMatches(TrimSpace(d.Lines[node.Line - d.StartLine + 1]))
              defs == C18_Labelled(k, d.Lines[k + 1], node.ID)
          IN  /\ \E e \in DOMAIN es : node.ID \in {es[e].from, es[e].to}
              /\ node.Label # <<>>
              /\ k > node.Line - d.StartLine
              /\ defs # <<>>
              /\ defs[1].label # node.Label

\* C19: at every point of the structural scan and in every Diagram that
\* Parse returns, the ids of the nodes in the node list are pairwise
\* distinct, and during the scan they are the ids seenNodes holds.
C19_DistinctNodeIDs ==
    /\ \A n, m \in DOMAIN d.Nodes :
          n # m => d.Nodes[n].ID # d.Nodes[m].ID
    /\ pc = "flowchart" => seenNodes = {d.Nodes[n].ID : n \in DOMAIN d.Nodes}

\* Parse returned a Diagram whose node list holds an id that occurs on two
\* lines, on one of them as the to of an edge
C19_Witness ==
    /\ pc = "lint"
    /\ IsFlow(d.Type)
    /\ \E n \in DOMAIN d.Nodes :
          /\ Cardinality(LinesOfId(d, d.Nodes[n].ID)) >= 2
          /\ \E k \in LinesOfId(d, d.Nodes[n].ID) :
                \E e \in DOMAIN EdgeMatches(TrimSpace(d.Lines[k + 1])) :
                   EdgeMatches(TrimSpace(d.Lines[k + 1]))[e].to = d.Nodes[n].ID

\* the node of that id, registered no later than that line
C20_RegisteredBy(dg, id, line) ==
    \E n \in DOMAIN dg.Nodes : dg.Nodes[n].ID = id /\ dg.Nodes[n].Line <= line

C21_Parts(line) == CHOOSE a \in ArrowParts : ArrowLine(a.x, a.b1, a.y, a.b2) = line

\* the text and the shape of an inline bracket group
C21_LabelOf(b) == SubSeq(b, 2, Len(b) - 1)

C21_ShapeOf(b) == IF Head(b) = "[" THEN "rect" ELSE "round"

\* the node of the id is in the node list, registered no later than the line
C21_Node(dg, id) == dg.Nodes[CHOOSE n \in DOMAIN dg.Nodes : dg.Nodes[n].ID = id]

C21_IsNodeBy(dg, id, line) ==
    \E n \in DOMAIN dg.Nodes : dg.Nodes[n].ID = id /\ dg.Nodes[n].Line <= line

\* C21: an arrow whose left endpoint carries an inline bracketed definition
\* produces no Edge: after the scan of a line `X[l1] --> Y[l2]` or
\* `X[l1] --> Y` the Diagram has no edge of that line while X and Y are
\* nodes, X with a label (l1 if no earlier line gave it one); after the
\* scan of a line `X --> Y[l2]` it has the one edge X to Y of that line and
\* Y has a label (l2, with its shape, if no earlier line gave it one).
C21_BracketedLeftEndpoint ==
    (pc \in {"flowchart", "lint"} /\ IsFlow(d.Type))
    => LET parts == [k \in 1..(Len(d.Lines) - 1) |-> C21_Parts(d.Lines[k + 1])]
       IN  \A k \in DOMAIN parts :
              (pc = "lint" \/ k < i)
              => LET a == parts[k]
                     line == d.StartLine + k
                     here == {e \in DOMAIN d.Edges : d.Edges[e].Line = line}
                 IN  /\ a.b1 # <<>>
                         => /\ here = {}
                            /\ C21_IsNodeBy(d, a.x, line)
                            /\ C21_IsNodeBy(d, a.y, line)
                            /\ C21_Node(d, a.x).Label # <<>>
                            /\ (\A j \in 1..(k - 1) :
                                   parts[j].x = a.x => parts[j].b1 = <<>>)
                                  => /\ C21_Node(d, a.x).Label = C21_LabelOf(a.b1)
                                     /\ C21_Node(d, a.x).Shape = C21_ShapeOf(a.b1)
                     /\ (a.b1 = <<>> /\ a.b2 # <<>>)
                         => /\ Cardinality(here) = 1
                            /\ \A e \in here :
                                  /\ d.Edges[e].From = a.x
                                  /\ d.Edges[e].To = a.y
                                  /\ d.Edges[e].Style = <<"-", "-", ">">>
                            /\ C21_Node(d, a.y).Label # <<>>
                            /\ (\A j \in 1..(k - 1) : parts[j].b2 = <<>>)
                                  => /\ C21_Node(d, a.y).Label = C21_LabelOf(a.b2)
                                     /\ C21_Node(d, a.y).Shape = C21_ShapeOf(a.b2)

\* Parse returned the Diagram of `A[Start] --> B` followed by
\* `C --> B[End]`: one edge, C to B, and B, registered without label by the
\* first line, has the label of the second
C21_Witness ==
    /\ pc = "lint"
    /\ d.Lines = << LnFlowLR,
                    ArrowLine(<<"A">>, <<"[","S","t","a","r","t","]">>, <<"B">>, <<>>),
                    ArrowLine(<<"C">>, <<>>, <<"B">>, <<"[","E","n","d","]">>) >>
    /\ Len(d.Edges) = 1
    /\ d.Edges[1].From = <<"C">>
    /\ C21_Node(d, <<"B">>).Label = <<"E","n","d">>
    /\ C21_Node(d, <<"B">>).Line = d.StartLine + 1

====
